---- MODULE Spec2Model ----
(***************************************************************************)
(* A model of spotgen's entity resolution (src/src/album.js,               *)
(* src/src/artist.js) and of its web scraper (src/unnamed/part_000).       *)
(*                                                                         *)
(* Spec       identity resolution of one Album or Artist entry:            *)
(*            searchForAlbum / searchForArtist and setResponse, with the   *)
(*            catalog's answers as the environment's steps.                *)
(* SpecDispatch  dispatch() of one entry, with setLimit and setResponse.    *)
(* SpecArtist dispatch() of an Artist entry with a known id: the album     *)
(*            list, the children's popularity, the sort, the children's    *)
(*            dispatch, the flattening and the filter.                     *)
(* SpecCrawl  one crawl of the web scraper, with the fetched documents as  *)
(*            the environment's steps.                                     *)
(* SpecLastfm one crawl of last.fm in which every request settles.         *)
(*                                                                         *)
(* JavaScript strings are tuples of one-character strings, so that trim()  *)
(* and the regular expression of the fallback are computed, not assumed.   *)
(***************************************************************************)
EXTENDS Integers, Sequences, FiniteSets, TLC

VARIABLES
  kind,            \* "album" | "artist": which constructor built the entry
  entry,           \* this.entry
  id,              \* this.id
  limit,           \* this.limit
  searchResponse,  \* this.searchResponse
  fullResponse,    \* this.albumResponse (Album) / this.artistResponse (Artist)
  albumsResponse,  \* this.albumsResponse (Artist)
  fetchTracks,     \* this.fetchTracks (Album)
  calls,           \* the calls of searchForAlbum / searchForArtist
  searches,        \* catalog search requests issued so far
  fetch,           \* the getAlbum / getAlbumsByArtist request of dispatch()
  dispatchPc,      \* where the promise chain of dispatch() stands
  queue,           \* the queue dispatch() fulfilled with
  uri,             \* WebScraper: this.uri
  budget,          \* WebScraper: this.count
  web,             \* the documents the sites serve during the crawl
  strategy,        \* the scraping function scrape() invoked
  crawl,           \* the crawl's promise: "idle", "fetching", "returned", "rejected"
  nextUri,         \* getPages: the URI whose document is awaited
  count,           \* getPages: its count argument
  result,          \* getPages: its result argument, then the fulfilled buffer
  nextUrls,        \* lastfm's getPages: the queue of follow-up URIs
  fetched,         \* the document requests issued so far, in order
  enqueued,        \* the follow-up URIs pushed so far, in order
  failedAt,        \* the number of the request that failed, 0 while none has
  inFlight,        \* the requests of http() that have not settled yet
  albums,          \* Artist.createQueue: the queue of child Album entries
  pos,             \* the child the sequential iteration stands at, 0 outside it
  children,        \* the queues the children's dispatch() fulfilled with
  requested        \* the ids createQueue's children requested of getAlbum

entryVars == <<kind, entry, id, limit, searchResponse, fullResponse,
               albumsResponse, fetchTracks, calls, searches, fetch,
               dispatchPc, queue>>

crawlVars == <<uri, budget, web, strategy, crawl, nextUri, count, result,
               nextUrls, fetched, enqueued, failedAt, inFlight>>

expandVars == <<albums, pos, children, requested>>

-----------------------------------------------------------------------------
(* Bounds *)

MaxRefLen == 2
MaxCalls == 2
MaxTracks == 2
MaxLimit == 3
MaxParam == 1
MaxBudget == 2
MaxItems == 2
MaxPages == 3
MaxHops == 4
MaxAlbums == 2

-----------------------------------------------------------------------------
(* JavaScript values *)

\* undefined, as a value no string equals
Undefined == <<"#undefined">>

\* JavaScript truthiness of a string-or-undefined value
Truthy(s) == s # Undefined /\ s # <<>>

\* The values of this.limit and of setLimit's argument: null, an integer,
\* or anything that is no integer (undefined, "3", 1.5).
Null == [t |-> "null", v |-> 0]

Num(k) == [t |-> "int", v |-> k]

NotAnInteger == [t |-> "other", v |-> 0]

\* Number.isInteger
IsInteger(x) == x.t = "int"

\* JavaScript truthiness of a number-or-null value
TruthyNum(x) == x.t = "int" /\ x.v # 0

Letters == {"a"}

Digits == {"7"}

Alphabet == Letters \cup Digits \cup {" ", "-"}

RawRefs == UNION {[1..n -> Alphabet] : n \in 0..MaxRefLen}

RECURSIVE TrimLeft(_)
TrimLeft(s) ==
  IF s # <<>> /\ Head(s) = " " THEN TrimLeft(Tail(s)) ELSE s

RECURSIVE TrimRight(_)
TrimRight(s) ==
  IF s # <<>> /\ s[Len(s)] = " " THEN TrimRight(SubSeq(s, 1, Len(s) - 1)) ELSE s

\* String.prototype.trim
Trim(s) == TrimRight(TrimLeft(s))

\* the character class [0-9a-z] under the i flag
IsAlnum(c) == c \in Letters \cup Digits

\* a plausible slip: the fallback's pattern never matches
MatchesIdNever(s) == FALSE

\* self.entry.match(/[0-9a-z]+$/i): some non-empty run of letters and digits
\* ends the string
MatchesId(s) ==
  \E k \in 1..Len(s) : \A j \in k..Len(s) : IsAlnum(s[j])

-----------------------------------------------------------------------------
(* Catalog responses *)

CatalogIds == {<<"x">>, <<"y">>}

\* A JSON response: `hit` is albums.items[0].id (artists.items[0].id),
\* undefined when there is no such list or it is empty; `id` is the
\* top-level id; `tracks` is tracks.items; `items` is the top-level items
\* of an artist's album list (present when tag = "albums").
Response(tag, hit, rid, tracks, items) ==
  [tag |-> tag, hit |-> hit, id |-> rid, tracks |-> tracks, items |-> items]

NullResponse == Response("null", Undefined, Undefined, <<>>, <<>>)

SearchResult(hit) == Response("search", hit, Undefined, <<>>, <<>>)

TrackItems(n) == [i \in 1..n |-> i]

FullResult(rid, n) == Response("full", Undefined, rid, TrackItems(n), <<>>)

AlbumsResult(n) == Response("albums", Undefined, Undefined, <<>>, TrackItems(n))

\* what the catalog's search may fulfil with
SearchResults ==
  {NullResponse} \cup {SearchResult(h) : h \in CatalogIds \cup {Undefined}}

\* the full objects a caller may hand to setResponse (no track list is read)
FullResults == {FullResult(i, 0) : i \in CatalogIds}

\* what the catalog's getAlbum may fulfil with: fetchAlbum reads no id of it
AlbumResults == {FullResult(<<"x">>, n) : n \in 0..MaxTracks}

\* what the catalog's getAlbumsByArtist may fulfil with
AlbumsResults == {AlbumsResult(n) : n \in 0..1}

\* `if (response)`
TruthyResponse(r) == r.tag # "null"

\* response.albums && response.albums.items[0] && response.albums.items[0].id
\* (artists for an Artist)
HasHit(r) == TruthyResponse(r) /\ Truthy(r.hit)

\* response.items
HasItems(r) == r.tag = "albums"

-----------------------------------------------------------------------------
(* The entry: src/src/album.js and src/src/artist.js *)

\* Slot 0 is the call dispatch() makes; the others are a caller's own.
CallIds == 0..MaxCalls

\* the value a call's promise rejects with, while it has not rejected
NoReason == <<"#none">>

\* `Promise.reject(null)`: null, as a value no string equals
RejectNull == <<"#null">>

IdleCall == [st |-> "idle", out |-> "none", idAt |-> Undefined, err |-> NoReason]

IdleFetch == [st |-> "idle", req |-> Undefined]

\* what a caller may pass as limit
LimitArgs == {NotAnInteger} \cup {Num(k) : k \in -1..MaxLimit}

\* the ids a caller may pass to the constructor
CtorIds == {Undefined} \cup CatalogIds

\* what a caller may pass to setResponse
SetResponseArgs == SearchResults \cup FullResults \cup {AlbumsResult(1)}

\* setLimit: `if (Number.isInteger(limit)) this.limit = limit`
SetLimitValue(cur, arg) == IF IsInteger(arg) THEN arg ELSE cur

\* a plausible slip: a known id is not looked at
IsResolvedIgnoringId(sr, fr, i) == TruthyResponse(sr) \/ TruthyResponse(fr)

\* the three early returns of searchForAlbum / searchForArtist
IsResolved(sr, fr, i) ==
  TruthyResponse(sr) \/ TruthyResponse(fr) \/ Truthy(i)

\* Queue.prototype.slice(start, end), an Array.prototype.slice
Slice(q, start, end) ==
  LET n == Len(q)
      from == IF start < 0 THEN (IF n + start < 0 THEN 0 ELSE n + start)
              ELSE (IF start > n THEN n ELSE start)
      to == IF end < 0 THEN (IF n + end < 0 THEN 0 ELSE n + end)
            ELSE (IF end > n THEN n ELSE end)
  IN  IF to <= from THEN <<>> ELSE SubSeq(q, from + 1, to)

\* Album.prototype.title: the full response carries its name with its id
Title(fr) == IF TruthyResponse(fr) /\ Truthy(fr.id) THEN fr.id ELSE <<>>

\* a plausible slip: the items are mapped last to first
AlbumTracksReversed(e, fr) ==
  [i \in 1..Len(fr.tracks) |->
     [entry |-> e, response |-> fr.tracks[Len(fr.tracks) + 1 - i],
      album |-> Title(fr)]]

\* the tracks createQueue maps the album's items to
AlbumTracks(e, fr) ==
  [i \in 1..Len(fr.tracks) |->
     [entry |-> e, response |-> fr.tracks[i], album |-> Title(fr)]]

\* Album.prototype.createQueue
AlbumQueue(e, fr, lim) ==
  IF TruthyNum(lim) THEN Slice(AlbumTracks(e, fr), 0, lim.v)
  ELSE AlbumTracks(e, fr)

\* setLimit(limit)
SetLimit(arg) ==
  /\ UNCHANGED <<crawlVars, expandVars>>
  /\ limit' = SetLimitValue(limit, arg)
  /\ UNCHANGED <<kind, entry, id, searchResponse, fullResponse, albumsResponse,
                 fetchTracks, calls, searches, fetch, dispatchPc, queue>>

\* Album.prototype.setResponse
AlbumSetResponse(r) ==
  /\ UNCHANGED <<crawlVars, expandVars>>
  /\ kind = "album"
  /\ IF HasHit(r)
       THEN /\ searchResponse' = r
            /\ id' = r.id
            /\ UNCHANGED <<fullResponse, albumsResponse>>
       ELSE IF TruthyResponse(r) /\ Truthy(r.id)
         THEN /\ fullResponse' = r
              /\ id' = r.id
              /\ UNCHANGED <<searchResponse, albumsResponse>>
         ELSE UNCHANGED <<searchResponse, fullResponse, albumsResponse, id>>
  /\ UNCHANGED <<kind, entry, limit, fetchTracks, calls, searches, fetch,
                 dispatchPc, queue>>

\* Artist.prototype.setResponse
ArtistSetResponse(r) ==
  /\ UNCHANGED <<crawlVars, expandVars>>
  /\ kind = "artist"
  /\ IF HasHit(r)
       THEN /\ searchResponse' = r
            /\ id' = r.hit
            /\ UNCHANGED <<fullResponse, albumsResponse>>
       ELSE IF TruthyResponse(r) /\ Truthy(r.id)
         THEN /\ fullResponse' = r
              /\ id' = r.id
              /\ UNCHANGED <<searchResponse, albumsResponse>>
         ELSE IF TruthyResponse(r) /\ HasItems(r)
           THEN /\ albumsResponse' = r
                /\ UNCHANGED <<searchResponse, fullResponse, id>>
           ELSE UNCHANGED <<searchResponse, fullResponse, albumsResponse, id>>
  /\ UNCHANGED <<kind, entry, limit, fetchTracks, calls, searches, fetch,
                 dispatchPc, queue>>

\* dispatch(): what follows the settling of its search (call 0) as `st`,
\* with this.id then `idNow`: a rejection passes through both .then; on
\* fulfilment the first .then handler calls fetchAlbum / fetchAlbums, which
\* requests this.id; without fetchTracks the search is all there is.
\* A call that is not dispatch's leaves dispatch alone.
Continue(c, mode, st, idNow) ==
  IF c # 0
    THEN UNCHANGED <<dispatchPc, fetch>>
    ELSE IF st = "rejected"
      THEN dispatchPc' = "rejected" /\ UNCHANGED fetch
      ELSE IF mode = "searchOnly"
        THEN dispatchPc' = "done" /\ UNCHANGED fetch
        ELSE /\ dispatchPc' = "fetch"
             /\ fetch' = [st |-> "pending", req |-> idNow]

\* The synchronous part of searchForAlbum / searchForArtist, as call c:
\* fulfil at once from what is cached, or issue the catalog search.
StartSearch(c, mode) ==
  IF IsResolved(searchResponse, fullResponse, id)
    THEN /\ calls' = [calls EXCEPT ![c] =
                        [st |-> "fulfilled", out |-> "cached", idAt |-> id,
                         err |-> NoReason]]
         /\ UNCHANGED searches
         /\ Continue(c, mode, "fulfilled", id)
    ELSE /\ calls' = [calls EXCEPT ![c].st = "pending"]
         /\ searches' = searches + 1
         /\ IF c = 0 THEN dispatchPc' = mode /\ UNCHANGED fetch
            ELSE UNCHANGED <<dispatchPc, fetch>>

\* a caller calls searchForAlbum() / searchForArtist()
SearchCall(c) ==
  /\ UNCHANGED <<crawlVars, expandVars>>
  /\ c # 0
  /\ calls[c].st = "idle"
  /\ StartSearch(c, "search")
  /\ UNCHANGED <<kind, entry, id, limit, searchResponse, fullResponse,
                 albumsResponse, fetchTracks, queue>>

\* the catalog search of call c fulfils with r: the .then handler
SearchFound(c, r) ==
  /\ UNCHANGED <<crawlVars, expandVars>>
  /\ calls[c].st = "pending"
  /\ searchResponse' = r
  /\ id' = IF HasHit(r) THEN r.hit ELSE id
  /\ calls' = [calls EXCEPT ![c] =
                 [st |-> "fulfilled", out |-> "found", idAt |-> id',
                  err |-> NoReason]]
  /\ Continue(c, dispatchPc, "fulfilled", id')
  /\ UNCHANGED <<kind, entry, limit, fullResponse, albumsResponse, fetchTracks,
                 searches, queue>>

\* the catalog search of call c rejects: the .catch handler
SearchFailed(c) ==
  /\ UNCHANGED <<crawlVars, expandVars>>
  /\ calls[c].st = "pending"
  /\ IF MatchesId(entry)
       THEN /\ id' = entry
            /\ calls' = [calls EXCEPT ![c] =
                           [st |-> "fulfilled", out |-> "failed", idAt |-> entry,
                            err |-> NoReason]]
            /\ Continue(c, dispatchPc, "fulfilled", entry)
       ELSE /\ id' = id
            /\ calls' = [calls EXCEPT ![c] =
                           [st |-> "rejected", out |-> "failed", idAt |-> id,
                            err |-> RejectNull]]
            /\ Continue(c, dispatchPc, "rejected", id)
  /\ UNCHANGED <<kind, entry, limit, searchResponse, fullResponse,
                 albumsResponse, fetchTracks, searches, queue>>

\* a caller clears the public field fetchTracks before dispatching
ClearFetchTracks ==
  /\ UNCHANGED <<crawlVars, expandVars>>
  /\ kind = "album"
  /\ dispatchPc = "idle"
  /\ fetchTracks = TRUE
  /\ fetchTracks' = FALSE
  /\ UNCHANGED <<kind, entry, id, limit, searchResponse, fullResponse,
                 albumsResponse, calls, searches, fetch, dispatchPc, queue>>

\* dispatch(), up to its first suspension
Dispatch ==
  /\ UNCHANGED <<crawlVars, expandVars>>
  /\ dispatchPc = "idle"
  /\ StartSearch(0, IF kind = "album" /\ ~fetchTracks THEN "searchOnly" ELSE "search")
  /\ UNCHANGED <<kind, entry, id, limit, searchResponse, fullResponse,
                 albumsResponse, fetchTracks, queue>>

\* getAlbum fulfils with r: fetchAlbum's .then handler, then createQueue()
FetchAlbumDone(r) ==
  /\ UNCHANGED <<crawlVars, expandVars>>
  /\ kind = "album"
  /\ fetch.st = "pending"
  /\ fullResponse' = r
  /\ fetch' = [fetch EXCEPT !.st = "done"]
  /\ queue' = AlbumQueue(entry, r, limit)
  /\ dispatchPc' = "done"
  /\ UNCHANGED <<kind, entry, id, limit, searchResponse, albumsResponse,
                 fetchTracks, calls, searches>>

\* the catalog id of the album an item of the album list names
AlbumId(item) == [j \in 1..item |-> "x"]

\* An album object of the catalog: a simplified one (tag "item", as the album
\* list holds them) or a full one, with its popularity and its track items.
AlbumObject(tag, aid, p, ts) ==
  [tag |-> tag, hit |-> Undefined, id |-> aid, tracks |-> ts, items |-> <<>>,
   popularity |-> p]

\* a track item of a full album: its place on the album and the artists it
\* credits
TrackItem(n, artists) == [n |-> n, artists |-> artists]

\* the artists a track item may credit: the entry's, or another
Credits == {{<<"a">>}, {<<"b">>}}

Popularities == {0, 1}

\* the track lists of a full album
TrackLists ==
  UNION {{[i \in 1..n |-> TrackItem(i, c[i])] : c \in [1..n -> Credits]} :
           n \in 0..MaxTracks}

\* what getAlbum may fulfil with while createQueue reads the popularities
\* (the track list of this answer is never read: the child's dispatch()
\* fetches the album again)
PopularityAnswer(aid, p) == AlbumObject("full", aid, p, <<>>)

\* what getAlbum may fulfil with for a child's dispatch() (its popularity is
\* not read any more)
TrackAnswer(aid, ts) == AlbumObject("full", aid, 0, ts)

\* the album lists getAlbumsByArtist may fulfil with in SpecArtist
ExpandAlbumsResults == {AlbumsResult(n) : n \in 0..MaxAlbums}

\* `new Album(self.spotify, self.entry)` then `album.setResponse(item)`: the
\* item has an id and no albums list, so it becomes the albumResponse
ChildAlbum(item) ==
  [id |-> item.id, albumResponse |-> item,
   limit |-> SetLimitValue(Null, NotAnInteger)]

\* createQueue's `albums`: one child per item of the album list, in order
ChildAlbums(r) ==
  [i \in 1..Len(r.items) |->
     ChildAlbum(AlbumObject("item", AlbumId(r.items[i]), 0, <<>>))]

\* Album.prototype.popularity of a child
Popularity(a) == a.albumResponse.popularity

\* sort.album places a before b: the more popular album first
Before(a, b) == Popularity(a) > Popularity(b)

\* insert a before the first album it is not after
RECURSIVE InsertAlbum(_, _)
InsertAlbum(a, q) ==
  IF q = <<>> THEN <<a>>
  ELSE IF Before(Head(q), a) THEN <<Head(q)>> \o InsertAlbum(a, Tail(q))
  ELSE <<a>> \o q

\* Queue.prototype.sort(sort.album): a stable sort
RECURSIVE SortAlbums(_)
SortAlbums(q) ==
  IF q = <<>> THEN <<>> ELSE InsertAlbum(Head(q), SortAlbums(Tail(q)))

\* Queue.prototype.flatten: one level of nesting removed, order kept
RECURSIVE Flatten(_)
Flatten(qs) == IF qs = <<>> THEN <<>> ELSE Head(qs) \o Flatten(Tail(qs))

\* Track.prototype.hasArtist: the track's metadata credits the artist
HasArtist(track, artist) == artist \in track.response.artists

\* a plausible slip: the tracks are not filtered
ArtistFilterNone(q, e) == q

\* `queue.flatten().filter(function (track) { return
\* track.hasArtist(self.entry) })`, after the flattening
ArtistFilter(q, e) == SelectSeq(q, LAMBDA t : HasArtist(t, e))

\* a child's fetchAlbum(): getAlbum is requested with the child's id
RequestAlbum(a) ==
  /\ fetch' = [st |-> "pending", req |-> a.id]
  /\ requested' = Append(requested, a.id)

\* getAlbumsByArtist fulfils with r: fetchAlbums' .then handler, then
\* createQueue() up to the first child's fetchAlbum() (with no child the
\* iteration, the sort, the dispatch and the filter have nothing to do)
FetchAlbumsDone(r) ==
  /\ UNCHANGED crawlVars
  /\ kind = "artist"
  /\ dispatchPc = "fetch"
  /\ fetch.st = "pending"
  /\ albumsResponse' = r
  /\ albums' = ChildAlbums(r)
  /\ children' = <<>>
  /\ IF albums' = <<>>
       THEN /\ fetch' = [fetch EXCEPT !.st = "done"]
            /\ queue' = ArtistFilter(Flatten(<<>>), entry)
            /\ dispatchPc' = "done"
            /\ UNCHANGED <<pos, requested>>
       ELSE /\ RequestAlbum(albums'[1])
            /\ pos' = 1
            /\ dispatchPc' = "popularity"
            /\ UNCHANGED queue
  /\ UNCHANGED <<kind, entry, id, limit, searchResponse, fullResponse,
                 fetchTracks, calls, searches>>

\* forEachPromise: getAlbum fulfils for the child at pos, with an album of
\* popularity p. The next
\* child's fetchAlbum() follows; after the last, the sort and
\* albumQueue.dispatch(), whose first child (fetchTracks set, its
\* albumResponse known, so no search) requests its album again
PopularityDone(p) ==
  /\ UNCHANGED crawlVars
  /\ kind = "artist"
  /\ dispatchPc = "popularity"
  /\ fetch.st = "pending"
  /\ LET r == PopularityAnswer(albums[pos].id, p)
         q == [albums EXCEPT ![pos].albumResponse = r]
     IN  IF pos < Len(albums)
           THEN /\ albums' = q
                /\ pos' = pos + 1
                /\ RequestAlbum(q[pos + 1])
                /\ UNCHANGED dispatchPc
           ELSE /\ albums' = SortAlbums(q)
                /\ pos' = 1
                /\ RequestAlbum(albums'[1])
                /\ dispatchPc' = "albums"
  /\ UNCHANGED <<kind, entry, id, limit, searchResponse, fullResponse,
                 albumsResponse, fetchTracks, calls, searches, queue, children>>

\* albumQueue.dispatch(): getAlbum fulfils for the child at pos, with an
\* album of track items ts, and the child's createQueue() gives its tracks. The next child's dispatch() follows;
\* after the last, the flattening and the filter
ChildDispatchDone(ts) ==
  /\ UNCHANGED crawlVars
  /\ kind = "artist"
  /\ dispatchPc = "albums"
  /\ fetch.st = "pending"
  /\ albums' = [albums EXCEPT
                  ![pos].albumResponse = TrackAnswer(albums[pos].id, ts)]
  /\ children' = Append(children, AlbumQueue(entry, albums'[pos].albumResponse,
                                             albums[pos].limit))
  /\ IF pos < Len(albums)
       THEN /\ pos' = pos + 1
            /\ RequestAlbum(albums'[pos + 1])
            /\ UNCHANGED <<dispatchPc, queue>>
       ELSE /\ pos' = 0
            /\ fetch' = [fetch EXCEPT !.st = "done"]
            /\ queue' = ArtistFilter(Flatten(children'), entry)
            /\ dispatchPc' = "done"
            /\ UNCHANGED requested
  /\ UNCHANGED <<kind, entry, id, limit, searchResponse, fullResponse,
                 albumsResponse, fetchTracks, calls, searches>>

\* getAlbum / getAlbumsByArtist rejects: no handler of dispatch() catches it
FetchFailed ==
  /\ UNCHANGED <<crawlVars, expandVars>>
  /\ fetch.st = "pending"
  /\ fetch' = [fetch EXCEPT !.st = "rejected"]
  /\ dispatchPc' = "rejected"
  /\ UNCHANGED <<kind, entry, id, limit, searchResponse, fullResponse,
                 albumsResponse, fetchTracks, calls, searches, queue>>

-----------------------------------------------------------------------------
(* The web scraper: src/unnamed/part_000 *)

\* NaN, what parseInt gives for a parameter the URI does not carry
NaN == [t |-> "nan", v |-> 0]

\* isNaN
IsNaN(x) == x.t # "int"

\* A URI: its domain, what its path says (`kind`: "tracks" for /+tracks,
\* "similar" for /+similar, "artists", "albums", "track" for any other
\* last.fm path, "comments" for /comments/, "listing", "page"), what it names
\* (`name`: an artist, a track, a page number) and its four query parameters
\* as parseInt reads them.
Uri(domain, k, name, nbT, nbST, nbSA, nbSAT) ==
  [domain |-> domain, kind |-> k, name |-> name, nb_tracks |-> nbT,
   nb_similar_tracks |-> nbST, nb_similar_artists |-> nbSA,
   nb_similar_artists_tracks |-> nbSAT]

PlainUri(domain, k, name) == Uri(domain, k, name, NaN, NaN, NaN, NaN)

\* the values of a count parameter in a start URI
ParamValues == {NaN} \cup {Num(k) : k \in 0..MaxParam}

\* what a caller may pass as count to the constructor: nothing, or 0..MaxBudget
CountArgs == {NotAnInteger} \cup {Num(k) : k \in 0..MaxBudget}

\* `count || dflt`
OrElse(c, dflt) == IF TruthyNum(c) THEN c.v ELSE dflt

\* the start URIs of last.fm: a parameter no page of the crawl reads is left out
LastfmUris ==
  {Uri("last.fm", k, 0, a, b, c, d) :
     k \in {"tracks", "similar"}, a \in ParamValues, b \in ParamValues,
     c \in ParamValues, d \in ParamValues}
  \cup {Uri("last.fm", "track", 0, NaN, b, NaN, NaN) : b \in ParamValues}
  \cup {PlainUri("last.fm", k, 0) : k \in {"artists", "albums"}}

\* the start URIs of the other sites, at page 1
OtherUris ==
  {PlainUri(d, "page", 1) :
     d \in {"pitchfork.com", "rateyourmusic.com", "youtube.com", "example.com",
            "bandcamp.com"}}
  \cup {PlainUri("reddit.com", k, 1) : k \in {"comments", "listing"}}

\* The documents served: every page of a kind holds `rows[kind]` items (the
\* j-th item links to name j); page p of a paginated site carries a next
\* link to page p + 1 iff p < pages or the chain is endless.
Web(tracks, similar, other, pages, endless) ==
  [rows |-> [tracks |-> tracks, similar |-> similar, other |-> other],
   pages |-> pages, endless |-> endless]

LastfmWebs ==
  {Web(a, b, c, 1, FALSE) : a \in 0..MaxItems, b \in 0..MaxItems, c \in 0..MaxItems}

OtherWebs ==
  {Web(0, 0, c, p, e) : c \in 0..MaxItems, p \in 1..MaxPages, e \in BOOLEAN}

\* the number of matching items on the page of URI u
Rows(w, u) ==
  IF u.kind = "tracks" THEN w.rows.tracks
  ELSE IF u.kind = "similar" THEN w.rows.similar
  ELSE w.rows.other

\* whether page u of a paginated site carries a next link
HasNext(w, u) == w.endless \/ u.name < w.pages

\* URI(nextUri).absoluteTo(uri): a next link names the page, the site is the
\* start URI's
AbsoluteTo(page, base) == [base EXCEPT !.name = page]

\* the lines of the n-th request's document: one per item read
Lines(n, items) == [i \in 1..items |-> <<n, i>>]

\* lastfm's initial buffer, '#shuffle\n'
Shuffle == <<<<0, 0>>>>

\* a plausible slip: the scan stops one item late (`i > cap`)
ScannedOneMore(cap, m) ==
  IF IsNaN(cap) THEN m ELSE IF cap.v >= 0 /\ cap.v + 1 < m THEN cap.v + 1 ELSE m

\* the each() loops of lastfm: `if (i === cap) return false` stops the scan
Scanned(cap, m) ==
  IF IsNaN(cap) THEN m ELSE IF cap.v >= 0 /\ cap.v < m THEN cap.v ELSE m

\* lastfm: the items of page u that contribute
LastfmItems(w, u) ==
  IF u.kind = "tracks" THEN Scanned(u.nb_tracks, Rows(w, u))
  ELSE IF u.kind = "similar" THEN Scanned(u.nb_similar_artists, Rows(w, u))
  ELSE IF u.kind \in {"artists", "albums"} THEN Rows(w, u)
  ELSE Scanned(u.nb_similar_tracks, Rows(w, u))

\* lastfm: the lines page u adds (the similar-artists branch adds none)
LastfmLines(w, u, n) ==
  IF u.kind = "similar" THEN <<>> ELSE Lines(n, LastfmItems(w, u))

\* a plausible slip: the +tracks URIs built from a +similar page keep the
\* page's nb_similar_artists and nb_similar_artists_tracks
LastfmUrlsKeepingParams(w, u) ==
  IF u.kind = "tracks"
    THEN [j \in 1..LastfmItems(w, u) |->
            Uri("last.fm", "track", j, NaN, u.nb_similar_tracks, NaN, NaN)]
         \o (IF IsNaN(u.nb_similar_artists) THEN <<>>
             ELSE <<[u EXCEPT !.kind = "similar"]>>)
    ELSE IF u.kind = "similar"
      THEN [j \in 1..LastfmItems(w, u) |->
              Uri("last.fm", "tracks", j, u.nb_similar_artists_tracks,
                  u.nb_similar_tracks, u.nb_similar_artists,
                  u.nb_similar_artists_tracks)]
      ELSE <<>>

\* lastfm: the follow-up URIs page u pushes, in order (the link of a track
\* row leads to a track page; the j-th item of any page links to name j, so
\* two pages may push the same URI)
LastfmUrls(w, u) ==
  IF u.kind = "tracks"
    THEN [j \in 1..LastfmItems(w, u) |->
            Uri("last.fm", "track", j, NaN, u.nb_similar_tracks, NaN, NaN)]
         \o (IF IsNaN(u.nb_similar_artists) THEN <<>>
             ELSE <<[u EXCEPT !.kind = "similar"]>>)
    ELSE IF u.kind = "similar"
      THEN [j \in 1..LastfmItems(w, u) |->
              Uri("last.fm", "tracks", j, u.nb_similar_artists_tracks,
                  u.nb_similar_tracks, NaN, NaN)]
      ELSE <<>>

\* a plausible slip: lastfm stops on the budget alone, as the others do
LastfmReturnsOnBudget(c, urls) == c = 1 \/ Len(urls) = 0

\* lastfm: `count === 1 && nextUrls.length === 0`, else
\* `nextUrls.length > 0` goes on, else return
LastfmReturns(c, urls) ==
  IF c = 1 /\ Len(urls) = 0 THEN TRUE ELSE ~(Len(urls) > 0)

\* a plausible slip: an off-by-one in the budget test
LinearReturnsAtZero(c, next) == IF c = 0 THEN TRUE ELSE ~next

\* pitchfork, rateyourmusic, reddit: `count === 1`, else follow the next
\* link if there is one, else return
LinearReturns(c, next) == IF c = 1 THEN TRUE ELSE ~next

\* reddit: a comment thread's callback declares its own `lines` (the `var
\* lines` of its third case is hoisted), so getPages' lines stays empty;
\* a post listing adds one line per title
RedditLines(w, start, u, n) ==
  IF start.kind = "comments" THEN <<>> ELSE Lines(n, Rows(w, u))

\* a plausible slip: the youtube branch is missing
StrategyOfNoYoutube(domain) ==
  IF domain = "last.fm" THEN "lastfm"
  ELSE IF domain = "pitchfork.com" THEN "pitchfork"
  ELSE IF domain = "rateyourmusic.com" THEN "rateyourmusic"
  ELSE IF domain = "reddit.com" THEN "reddit"
  ELSE "webpage"

\* scrape(): the scraping function the domain selects
StrategyOf(domain) ==
  IF domain = "last.fm" THEN "lastfm"
  ELSE IF domain = "pitchfork.com" THEN "pitchfork"
  ELSE IF domain = "rateyourmusic.com" THEN "rateyourmusic"
  ELSE IF domain = "reddit.com" THEN "reddit"
  ELSE IF domain = "youtube.com" THEN "youtube"
  ELSE "webpage"

\* the `count = count || ...` each scraping function starts with
StartCount(s, c) ==
  IF s \in {"lastfm", "reddit"} THEN (IF c # 0 THEN c ELSE 1)
  ELSE IF s \in {"pitchfork", "rateyourmusic"} THEN (IF c # 0 THEN c ELSE 0)
  ELSE c

\* a plausible slip: a failed request is caught and the buffer returned
OnFetchErrorReturn == "returned"

\* no scraping function handles a rejection of http(): it rejects the crawl
OnFetchError == "rejected"

\* new WebScraper(uri, count, parser)
InitCrawl ==
  /\ \/ uri \in LastfmUris /\ web \in LastfmWebs
     \/ uri \in OtherUris /\ web \in OtherWebs
  /\ budget \in {OrElse(c, 0) : c \in CountArgs}
  /\ strategy = "none"
  /\ crawl = "idle"
  /\ nextUri = uri
  /\ count = 0
  /\ result = <<>>
  /\ nextUrls = <<>>
  /\ fetched = <<>>
  /\ enqueued = <<>>
  /\ failedAt = 0
  /\ inFlight = 0

\* dispatch() -> scrape(this.uri, this.count): the scraping function starts
\* getPages (or its one request)
Scrape ==
  /\ UNCHANGED <<entryVars, expandVars>>
  /\ crawl = "idle"
  /\ strategy' = StrategyOf(uri.domain)
  /\ crawl' = "fetching"
  /\ nextUri' = uri
  /\ count' = StartCount(strategy', budget)
  /\ result' = IF strategy' = "lastfm" THEN Shuffle ELSE <<>>
  /\ fetched' = <<uri>>
  /\ inFlight' = inFlight + 1
  /\ UNCHANGED <<uri, budget, web, nextUrls, enqueued, failedAt>>

\* a plausible slip: the next request goes out beside the pending one, not
\* from its handler
SettledNot(n) == n

\* `http(nextUri).then(function (data) {...})`: the handler runs once the
\* request has settled, which is then in flight no more
Settled(n) == n - 1

\* a plausible slip: the page's lines are put before the text so far
ConcatBefore(res, lines) == lines \o res

\* `result += lines`
Concat(res, lines) == res \o lines

\* getPages(next, result, c, urls), called by the handler of the previous
\* request: its request is issued
GetPages(next, res, c, urls) ==
  /\ inFlight' = Settled(inFlight) + 1
  /\ crawl' = "fetching"
  /\ nextUri' = next
  /\ result' = res
  /\ count' = c
  /\ nextUrls' = urls
  /\ fetched' = Append(fetched, next)

\* the crawl fulfils with res
Return(res, urls) ==
  /\ inFlight' = Settled(inFlight)
  /\ crawl' = "returned"
  /\ result' = res
  /\ nextUrls' = urls
  /\ UNCHANGED <<nextUri, count, fetched>>

\* lastfm: the document of nextUri has arrived
LastfmPage ==
  /\ UNCHANGED <<entryVars, expandVars>>
  /\ strategy = "lastfm"
  /\ crawl = "fetching"
  /\ LET res == Concat(result, LastfmLines(web, nextUri, Len(fetched)))
         pushed == LastfmUrls(web, nextUri)
         urls == nextUrls \o pushed
     IN  /\ enqueued' = enqueued \o pushed
         /\ IF LastfmReturns(count, urls)
              THEN Return(res, urls)
              ELSE GetPages(Head(urls), res, 1, Tail(urls))
  /\ UNCHANGED <<uri, budget, web, strategy, failedAt>>

\* the tail of the linear getPages: return, or follow the next link (an
\* endless chain is followed for MaxHops requests)
LinearPage(lines) ==
  /\ crawl = "fetching"
  /\ IF LinearReturns(count, HasNext(web, nextUri))
       THEN Return(Concat(result, lines), nextUrls)
       ELSE /\ Len(fetched) < MaxHops
            /\ GetPages(AbsoluteTo(nextUri.name + 1, uri), Concat(result, lines),
                        count - 1, nextUrls)
  /\ UNCHANGED <<uri, budget, web, strategy, enqueued, failedAt>>

\* pitchfork: the document of nextUri has arrived
PitchforkPage ==
  /\ UNCHANGED <<entryVars, expandVars>>
  /\ strategy = "pitchfork"
  /\ LinearPage(Lines(Len(fetched), Rows(web, nextUri)))

\* rateyourmusic: the document of nextUri has arrived
RateyourmusicPage ==
  /\ UNCHANGED <<entryVars, expandVars>>
  /\ strategy = "rateyourmusic"
  /\ LinearPage(Lines(Len(fetched), Rows(web, nextUri)))

\* reddit: the document of nextUri has arrived
RedditPage ==
  /\ UNCHANGED <<entryVars, expandVars>>
  /\ strategy = "reddit"
  /\ LinearPage(RedditLines(web, uri, nextUri, Len(fetched)))

\* youtube: the document has arrived; one line per title (trim() removes
\* no line)
YoutubePage ==
  /\ UNCHANGED <<entryVars, expandVars>>
  /\ strategy = "youtube"
  /\ crawl = "fetching"
  /\ Return(Lines(Len(fetched), Rows(web, nextUri)), nextUrls)
  /\ UNCHANGED <<uri, budget, web, strategy, enqueued, failedAt>>

\* webpage: the document has arrived; one line per link whose text is not
\* empty (the links in `empty` have none)
WebpagePage(empty) ==
  /\ UNCHANGED <<entryVars, expandVars>>
  /\ strategy = "webpage"
  /\ crawl = "fetching"
  /\ LET all == Lines(Len(fetched), Rows(web, nextUri))
     IN  Return(SelectSeq(all, LAMBDA l : l[2] \notin empty), nextUrls)
  /\ UNCHANGED <<uri, budget, web, strategy, enqueued, failedAt>>

\* http() rejects
FetchRejected ==
  /\ UNCHANGED <<entryVars, expandVars>>
  /\ crawl = "fetching"
  /\ crawl' = OnFetchError
  /\ failedAt' = Len(fetched)
  /\ inFlight' = Settled(inFlight)
  /\ UNCHANGED <<uri, budget, web, strategy, nextUri, count, result, nextUrls,
                 fetched, enqueued>>

NextCrawl ==
  \/ Scrape
  \/ LastfmPage
  \/ PitchforkPage
  \/ RateyourmusicPage
  \/ RedditPage
  \/ YoutubePage
  \/ \E empty \in SUBSET (1..MaxItems) : WebpagePage(empty)
  \/ FetchRejected

\* before Artist.createQueue
NoExpansion ==
  /\ albums = <<>>
  /\ pos = 0
  /\ children = <<>>
  /\ requested = <<>>

\* an entry that takes no part in a crawl
EntryUnused ==
  /\ kind = "album"
  /\ entry = <<>>
  /\ id = Undefined
  /\ limit = Null
  /\ searchResponse = NullResponse
  /\ fullResponse = NullResponse
  /\ albumsResponse = NullResponse
  /\ fetchTracks = TRUE
  /\ calls = [c \in CallIds |-> IdleCall]
  /\ searches = 0
  /\ fetch = IdleFetch
  /\ dispatchPc = "idle"
  /\ queue = <<>>
  /\ NoExpansion

\* a scraper that takes no part in an entry's resolution
CrawlUnused ==
  /\ uri = PlainUri("example.com", "page", 1)
  /\ budget = 0
  /\ web = Web(0, 0, 0, 1, FALSE)
  /\ strategy = "none"
  /\ crawl = "idle"
  /\ nextUri = uri
  /\ count = 0
  /\ result = <<>>
  /\ nextUrls = <<>>
  /\ fetched = <<>>
  /\ enqueued = <<>>
  /\ failedAt = 0
  /\ inFlight = 0

vars == <<entryVars, crawlVars, expandVars>>

-----------------------------------------------------------------------------
(* Spec: identity resolution of one entry, called by its owner *)

\* the callers' own calls
OwnCalls == 1..MaxCalls

\* new Album(spotify, entry, id) / new Artist(spotify, entry, id)
Init ==
  /\ kind \in {"album", "artist"}
  /\ entry \in {Trim(r) : r \in RawRefs}
  /\ id \in CtorIds
  /\ limit = SetLimitValue(Null, NotAnInteger)
  /\ searchResponse = NullResponse
  /\ fullResponse = NullResponse
  /\ albumsResponse = NullResponse
  /\ fetchTracks = TRUE
  /\ calls = [c \in CallIds |-> IdleCall]
  /\ searches = 0
  /\ fetch = IdleFetch
  /\ dispatchPc = "idle"
  /\ queue = <<>>
  /\ NoExpansion
  /\ CrawlUnused

Next ==
  \/ \E r \in SetResponseArgs : AlbumSetResponse(r)
  \/ \E r \in SetResponseArgs : ArtistSetResponse(r)
  \/ \E c \in OwnCalls : SearchCall(c)
  \/ \E c \in OwnCalls, r \in SearchResults : SearchFound(c, r)
  \/ \E c \in OwnCalls : SearchFailed(c)

Spec == Init /\ [][Next]_vars

-----------------------------------------------------------------------------
(* SpecDispatch: dispatch() of one entry *)

\* the references of SpecDispatch: with and without the fallback
DispatchRefs == {<<"a">>, <<"a", "-">>}

\* new Album(spotify, entry, id, limit) / new Artist(spotify, entry, id, limit)
InitDispatch ==
  /\ kind \in {"album", "artist"}
  /\ entry \in {Trim(r) : r \in DispatchRefs}
  /\ id \in CtorIds
  /\ limit \in {SetLimitValue(Null, a) : a \in LimitArgs}
  /\ searchResponse = NullResponse
  /\ fullResponse = NullResponse
  /\ albumsResponse = NullResponse
  /\ fetchTracks = TRUE
  /\ calls = [c \in CallIds |-> IdleCall]
  /\ searches = 0
  /\ fetch = IdleFetch
  /\ dispatchPc = "idle"
  /\ queue = <<>>
  /\ NoExpansion
  /\ CrawlUnused

NextDispatch ==
  \/ \E a \in LimitArgs : SetLimit(a)
  \/ \E r \in SetResponseArgs : AlbumSetResponse(r)
  \/ \E r \in SetResponseArgs : ArtistSetResponse(r)
  \/ ClearFetchTracks
  \/ Dispatch
  \/ \E r \in SearchResults : SearchFound(0, r)
  \/ SearchFailed(0)
  \/ \E r \in AlbumResults : FetchAlbumDone(r)
  \/ \E r \in AlbumsResults : FetchAlbumsDone(r)
  \/ \E p \in Popularities : PopularityDone(p)
  \/ \E ts \in TrackLists : ChildDispatchDone(ts)
  \/ FetchFailed

SpecDispatch == InitDispatch /\ [][NextDispatch]_vars

-----------------------------------------------------------------------------
(* SpecArtist: dispatch() of an Artist entry whose id is known *)

\* new Artist(spotify, entry, id, limit)
InitArtist ==
  /\ kind = "artist"
  /\ entry = Trim(<<"a", " ">>)
  /\ id \in CatalogIds
  /\ limit \in {SetLimitValue(Null, a) : a \in LimitArgs}
  /\ searchResponse = NullResponse
  /\ fullResponse = NullResponse
  /\ albumsResponse = NullResponse
  /\ fetchTracks = TRUE
  /\ calls = [c \in CallIds |-> IdleCall]
  /\ searches = 0
  /\ fetch = IdleFetch
  /\ dispatchPc = "idle"
  /\ queue = <<>>
  /\ NoExpansion
  /\ CrawlUnused

NextArtist ==
  \/ Dispatch
  \/ \E r \in ExpandAlbumsResults : FetchAlbumsDone(r)
  \/ \E p \in Popularities : PopularityDone(p)
  \/ \E ts \in TrackLists : ChildDispatchDone(ts)
  \/ FetchFailed

SpecArtist == InitArtist /\ [][NextArtist]_vars

-----------------------------------------------------------------------------
(* SpecCrawl: one crawl of the web scraper *)

InitScraper == InitCrawl /\ EntryUnused

SpecCrawl == InitScraper /\ [][NextCrawl]_vars

-----------------------------------------------------------------------------
(* SpecLastfm: one crawl of last.fm, every request of which settles *)

InitLastfm == InitScraper /\ uri.domain = "last.fm"

NextLastfm ==
  \/ Scrape
  \/ LastfmPage
  \/ FetchRejected

\* http() fulfils or rejects each request in the end, and the handler of a
\* settled promise is run
SpecLastfm ==
  InitLastfm /\ [][NextLastfm]_vars /\ WF_vars(LastfmPage \/ FetchRejected)

-----------------------------------------------------------------------------
(* Properties of the entry *)

Min(a, b) == IF a < b THEN a ELSE b

\* only letters and digits, and at least one: the shape of a catalog id
IdShaped(s) == Len(s) > 0 /\ \A j \in 1..Len(s) : s[j] \in Letters \cup Digits

\* at least one character that is neither a letter nor a digit
HasOtherChar(s) == \E j \in 1..Len(s) : s[j] \notin Letters \cup Digits

\* the entry's own fields
entryFields == <<kind, entry, id, limit, searchResponse, fullResponse,
                 albumsResponse, fetchTracks>>

\* C1: an Album entry with an integer limit k >= 0 (k = 0 included), whose
\* fetched album lists n tracks, fulfils dispatch with exactly the first
\* min(k, n) tracks of the album, in the album's order.
C1_LimitTruncates ==
  [][(kind = "album" /\ fetch.st = "pending" /\ fetch'.st = "done"
        /\ IsInteger(limit) /\ limit.v >= 0)
     => queue' = SubSeq(AlbumTracks(entry, fullResponse'), 1,
                        Min(limit.v, Len(fullResponse'.tracks)))]_vars

\* C2: two calls of searchForAlbum / searchForArtist on one entry issue at
\* most one catalog search in total, and both leave the entry with the same
\* id, whatever the search's outcome and however the calls overlap.
C2_OneSearchSameId ==
  \A c, d \in OwnCalls :
    (c # d /\ calls[c].st # "idle" /\ calls[d].st # "idle")
    => /\ searches <= 1
       /\ (calls[c].st # "pending" /\ calls[d].st # "pending"
           => calls[c].idAt = calls[d].idAt)

\* C3: a call of searchForAlbum / searchForArtist on an entry that holds an
\* id, a search response or a full response fulfils without a catalog search
\* and changes no field of the entry.
C3_ResolvedNoSearch ==
  [][\A c \in CallIds :
       (/\ calls[c].st = "idle"
        /\ calls'[c].st # "idle"
        /\ (Truthy(id) \/ TruthyResponse(searchResponse)
              \/ TruthyResponse(fullResponse)))
       => /\ calls'[c].st = "fulfilled"
          /\ searches' = searches
          /\ entryFields' = entryFields]_vars

\* an entry holding an id was asked to resolve, and no search was issued
C3_Witness ==
  \E c \in OwnCalls : calls[c].st = "fulfilled" /\ searches = 0 /\ Truthy(id)

\* C4: when the catalog search of an entry whose reference is made of
\* letters and digits only fails, the call fulfils and the entry's id is the
\* reference.
C4_FallbackAdoptsReference ==
  \A c \in CallIds :
    (calls[c].out = "failed" /\ IdShaped(entry))
    => (calls[c].st = "fulfilled" /\ calls[c].idAt = entry)

\* the search of an id-shaped reference has failed
C4_Witness ==
  \E c \in OwnCalls :
    calls[c].out = "failed" /\ IdShaped(entry) /\ calls[c].st = "fulfilled"

\* C5: when the catalog search of an entry whose reference holds a character
\* that is neither letter nor digit fails, the call rejects and the id stays
\* as it was (unset).
C5_OtherReferenceRejects ==
  [][\A c \in CallIds :
       (calls[c].st = "pending" /\ calls'[c].out = "failed"
          /\ HasOtherChar(entry))
       => (calls'[c].st = "rejected" /\ id' = id)]_vars

\* C6: once the id holds a defined value, no operation changes or unsets it.
C6_IdNeverReplaced == [][Truthy(id) => id' = id]_vars

\* C11: whenever searchForAlbum / searchForArtist rejects, the value it
\* rejects with is the entry's reference string.
C11_RejectionCarriesReference ==
  \A c \in CallIds : calls[c].st = "rejected" => calls[c].err = entry

\* C12: whenever searchForAlbum / searchForArtist has fulfilled, the entry
\* held a defined, non-empty id (a search without a hit on a reference that
\* is no id does not fulfil), and getAlbum / getAlbumsByArtist is never
\* requested with an undefined id.
C12_FulfilledHasId ==
  /\ \A c \in CallIds : calls[c].st = "fulfilled" => Truthy(calls[c].idAt)
  /\ fetch.st # "idle" => Truthy(fetch.req)

\* the distinct values of a sequence
Range(q) == {q[i] : i \in DOMAIN q}

\* a is b with some of its elements left out
RECURSIVE IsSubsequence(_, _)
IsSubsequence(a, b) ==
  IF a = <<>> THEN TRUE
  ELSE IF b = <<>> THEN FALSE
  ELSE IF Head(a) = Head(b) THEN IsSubsequence(Tail(a), Tail(b))
  ELSE IsSubsequence(a, Tail(b))

\* the tracks child album a lists, in the album's order
Listed(a) ==
  [i \in 1..Len(a.albumResponse.tracks) |->
     [entry |-> entry, response |-> a.albumResponse.tracks[i], album |-> a.id]]

\* T_1 ++ ... ++ T_N over the sorted albums
RECURSIVE ListedFrom(_)
ListedFrom(i) ==
  IF i > Len(albums) THEN <<>> ELSE Listed(albums[i]) \o ListedFrom(i + 1)

\* C13: an Artist entry with limit k expands at most k child albums and
\* requests at most k albums of the catalog, however long its album list.
C13_LimitBoundsAlbums ==
  (kind = "artist" /\ IsInteger(limit) /\ limit.v >= 0)
  => /\ Len(albums) <= limit.v
     /\ Cardinality(Range(requested)) <= limit.v

\* C14: the queue Artist.dispatch fulfils with is a subsequence of the
\* sorted albums' track lists put end to end: no track of an earlier album
\* after one of a later album, each album's tracks in the album's order.
C14_AlbumOrderKept ==
  (kind = "artist" /\ dispatchPc = "done")
  => IsSubsequence(queue, ListedFrom(1))

\* two albums, the second the more popular, tracks of both in the queue
C14_Witness ==
  /\ kind = "artist"
  /\ dispatchPc = "done"
  /\ Len(albums) = 2
  /\ albums[1].id = AlbumId(2)
  /\ Len(queue) >= 3
  /\ \E i, j \in DOMAIN queue : queue[i].album # queue[j].album

\* C15: every track of the queue Artist.dispatch fulfils with credits the
\* entry's reference, and every track the expanded albums list that credits
\* it is in the queue.
C15_FilterExact ==
  (kind = "artist" /\ dispatchPc = "done")
  => /\ \A i \in DOMAIN queue : entry \in queue[i].response.artists
     /\ \A t \in Range(ListedFrom(1)) :
          entry \in t.response.artists => t \in Range(queue)

\* a track that does not credit the entry was dropped, one that does was kept
C15_Witness ==
  /\ kind = "artist"
  /\ dispatchPc = "done"
  /\ Len(queue) >= 1
  /\ \E t \in Range(ListedFrom(1)) : entry \notin t.response.artists

\* C19: the limit of an entry is null or a non-negative integer, after
\* construction and after any calls of setLimit.
C19_LimitNotNegative == limit = Null \/ (IsInteger(limit) /\ limit.v >= 0)

-----------------------------------------------------------------------------
(* Properties of the crawl *)

Max(a, b) == IF a > b THEN a ELSE b

\* the scraping functions that follow a next-page link
Linear == {"pitchfork", "rateyourmusic", "reddit"}

\* pages 1..n of the start URI's site, in chain order
Chain(n) == [k \in 1..n |-> [uri EXCEPT !.name = k]]

\* C7: on a chain of P pages (all but the last with a next link) and a page
\* budget n >= 1, pitchfork, rateyourmusic and reddit never request more
\* than min(n, P) pages, and have requested exactly pages 1..min(n, P), in
\* chain order, when they return.
C7_FetchesMinPages ==
  (strategy \in Linear /\ ~web.endless /\ budget >= 1)
  => /\ Len(fetched) <= Min(budget, web.pages)
     /\ crawl = "returned" => fetched = Chain(Min(budget, web.pages))

\* a budget of 2 on a chain of 3 pages: returned after 2 requests
C7_Witness ==
  /\ strategy \in Linear
  /\ ~web.endless
  /\ web.pages = 3
  /\ budget = 2
  /\ crawl = "returned"
  /\ Len(fetched) = 2

\* C8: for every page budget b, 0 and absent included, pitchfork,
\* rateyourmusic and reddit request at most max(1, b) pages.
C8_AtMostBudgetPages ==
  strategy \in Linear => Len(fetched) <= Max(1, budget)

C10_FailFast ==
  failedAt > 0 => (crawl = "rejected" /\ Len(fetched) = failedAt)

\* the second or a later request failed, with text already in the buffer
C10_Witness ==
  failedAt >= 2 /\ Len(result) > 0 /\ crawl = "rejected"

\* C16: at most one request is in flight at any time, and a request after
\* the first is issued by the step that received the previous response and
\* appended its lines and follow-up URIs.
C16_OneFetchInFlight ==
  [][/\ inFlight' <= 1
     /\ (fetched # <<>> /\ Len(fetched') > Len(fetched))
        => /\ inFlight = 1
           /\ Len(fetched') = Len(fetched) + 1
           /\ Len(result') >= Len(result)
           /\ Len(enqueued') >= Len(enqueued)]_vars

\* a third request of a last.fm crawl is in flight
C16_Witness ==
  strategy = "lastfm" /\ Len(fetched) >= 3 /\ inFlight = 1

\* line a is of an earlier request than line b, or of an earlier item of
\* the same document
LineBefore(a, b) == a[1] < b[1] \/ (a[1] = b[1] /\ a[2] < b[2])

\* a is the beginning of b
IsPrefix(a, b) == Len(a) <= Len(b) /\ SubSeq(b, 1, Len(a)) = a

\* the buffer is the initial buffer, then the lines by request and, within
\* a request, by place in the document
BufferInOrder ==
  /\ \A i, j \in DOMAIN result : i < j => LineBefore(result[i], result[j])
  /\ \A i \in DOMAIN result :
       result[i][1] = 0 => (strategy = "lastfm" /\ i = 1)
  /\ (strategy = "lastfm") => IsPrefix(Shuffle, result)

\* after the start URI, the requests are the URIs pushed, oldest first
FetchedFifo ==
  strategy = "lastfm" => IsPrefix(Tail(fetched), enqueued)

ExpectedStrategy(domain) ==
  CASE domain = "last.fm" -> "lastfm"
    [] domain = "pitchfork.com" -> "pitchfork"
    [] domain = "rateyourmusic.com" -> "rateyourmusic"
    [] domain = "reddit.com" -> "reddit"
    [] domain = "youtube.com" -> "youtube"
    [] OTHER -> "webpage"

\* C18: scrape() invokes the scraping function of the URI's domain, the
\* generic webpage() for every other domain, which issues one request and
\* follows no link; the choice never changes during a crawl.
C18_StrategyByDomain ==
  [][/\ strategy' # "none" => strategy' = ExpectedStrategy(uri'.domain)
     /\ strategy # "none" => strategy' = strategy
     /\ strategy' = "webpage" => (fetched' = <<uri'>> /\ enqueued' = <<>>)]_vars

\* the generic function has returned the text of a page of another domain
C18_Witness ==
  /\ strategy = "webpage"
  /\ uri.domain = "bandcamp.com"
  /\ crawl = "returned"
  /\ Len(result) >= 1

\* the count parameter that caps the items of last.fm page u
CapOf(u) ==
  IF u.kind = "tracks" THEN u.nb_tracks
  ELSE IF u.kind = "similar" THEN u.nb_similar_artists
  ELSE u.nb_similar_tracks

\* the number of items the claim lets page u contribute
Capped(u) ==
  IF CapOf(u).t = "int" /\ CapOf(u).v >= 0
    THEN Min(CapOf(u).v, Rows(web, u))
    ELSE Rows(web, u)

\* what q' has after q
Added(q, r) == SubSeq(r, Len(q) + 1, Len(r))

\* C20: a +tracks, +similar or track page of last.fm with m items and count
\* parameter c adds the lines and pushes the follow-up URIs of its first
\* min(c, m) items, of all m items when the parameter is absent.
C20_CapsItems ==
  [][(/\ strategy = "lastfm"
      /\ crawl = "fetching"
      /\ crawl' # "rejected"
      /\ nextUri.kind \in {"tracks", "similar", "track"})
     => LET k == Capped(nextUri)
            lines == Added(result, result')
            items == SelectSeq(Added(enqueued, enqueued'),
                               LAMBDA u : u.kind # "similar")
        IN  /\ nextUri.kind # "similar"
               => lines = [i \in 1..k |-> <<Len(fetched), i>>]
            /\ nextUri.kind # "track"
               => /\ Len(items) = k
                  /\ \A i \in 1..k : items[i].name = i
            /\ nextUri.kind = "similar" => lines = <<>>
            /\ nextUri.kind = "track" => items = <<>>]_vars

\* a page of 2 items under a cap of 1 has contributed its first item
C20_Witness ==
  /\ strategy = "lastfm"
  /\ uri.kind = "tracks"
  /\ uri.nb_tracks = Num(1)
  /\ web.rows.tracks = 2
  /\ Len(fetched) >= 2
  /\ Len(result) = 2

\* the crawl started at a +tracks URI that carries nb_similar_artists
SimilarCrawl ==
  /\ strategy = "lastfm"
  /\ uri.kind = "tracks"
  /\ ~IsNaN(uri.nb_similar_artists)

\* the URIs a +similar page builds: +tracks URIs with the page's
\* nb_similar_artists_tracks as nb_tracks and without the two
\* similar-artists parameters
RewrittenFollowUps ==
  (SimilarCrawl /\ crawl = "fetching" /\ nextUri.kind = "similar")
  => \A i \in DOMAIN Added(enqueued, enqueued') :
       LET u == Added(enqueued, enqueued')[i]
       IN  /\ u.kind = "tracks"
           /\ u.nb_tracks = nextUri.nb_similar_artists_tracks
           /\ IsNaN(u.nb_similar_artists)
           /\ IsNaN(u.nb_similar_artists_tracks)

\* a +similar URI is pushed by the start page only
SimilarFromStartOnly ==
  (SimilarCrawl /\ \E i \in DOMAIN Added(enqueued, enqueued') :
                     Added(enqueued, enqueued')[i].kind = "similar")
  => (nextUri = uri /\ Len(fetched) = 1)

\* C21: in a last.fm crawl started at a +tracks URI with nb_similar_artists,
\* the +tracks URIs built from the +similar page have its
\* nb_similar_artists_tracks as nb_tracks and neither similar-artists
\* parameter, a +similar page is pushed by the start page only, and the
\* crawl ends, with an empty queue when it returns.
C21_OneLevelThenEnds ==
  /\ [][RewrittenFollowUps /\ SimilarFromStartOnly]_vars
  /\ (SimilarCrawl /\ crawl = "fetching")
       ~> (crawl = "rejected" \/ (crawl = "returned" /\ nextUrls = <<>>))

\* the crawl has returned after the +similar page and a +tracks page built
\* from it
C21_Witness ==
  /\ SimilarCrawl
  /\ crawl = "returned"
  /\ \E i, j \in DOMAIN fetched :
       i < j /\ fetched[i].kind = "similar" /\ fetched[j].kind = "tracks"

\* C22: a crawl of a Reddit comment thread fulfils with a buffer that holds
\* the line of every comment of every page it fetched, so a page with a
\* comment never gives an empty buffer.
C22_CommentLinesKept ==
  (strategy = "reddit" /\ uri.kind = "comments" /\ crawl = "returned")
  => \A n \in DOMAIN fetched :
       \A i \in 1..Rows(web, fetched[n]) : <<n, i>> \in Range(result)

\* C23: during one Artist.dispatch, getAlbum is requested at most once for
\* each album of the album list.
C23_AlbumFetchedOnce ==
  kind = "artist"
  => \A i, j \in DOMAIN requested : i # j => requested[i] # requested[j]

====
